---- MODULE Spec2Model ----
(***************************************************************************)
(* Model of create-test-image.py: a linear script that creates a white     *)
(* 1000x1000 RGB canvas, tries to load a default font, draws three texts   *)
(* and three filled rectangles, saves the canvas as a JPEG and prints one  *)
(* confirmation line.                                                      *)
(*                                                                         *)
(* pc names the source line that executes next ("L5" .. "L29"), or one of  *)
(* the two end states "done" / "failed".  The environment decides whether  *)
(* each load_default() call raises, what the text rendering backend's      *)
(* glyph metrics are, and what the file system looks like when the script  *)
(* starts.  The script may be run again after it ended (Rerun keeps the    *)
(* file system the previous run left, RerunFresh starts from the file      *)
(* system the previous run started from).                                  *)
(*                                                                         *)
(* The canvas raster is observed at a fixed set of probe pixels.           *)
(***************************************************************************)
EXTENDS Integers, Sequences, FiniteSets, TLC

VARIABLES pc, img, draw, font_large, font_medium, fs, fs0, stdout, writes,
          steps, err, fontPath, be, run, prev

vars == <<pc, img, draw, font_large, font_medium, fs, fs0, stdout, writes,
          steps, err, fontPath, be, run, prev>>

\* ---------------------------------------------------------------- bounds
MaxRuns == 2
MaxGlyphWidth == 10
MaxGlyphHeight == 14

\* ------------------------------------------------------ program literals
Width == 1000
Height == 1000
Quality == 95
OutPath == "test-images/test-wire-harness.jpg"
ConfirmLine == "Test image created: test-images/test-wire-harness.jpg"

Background == "white"

Text1 == [xy |-> <<500, 400>>, text |-> "TEST LISTING", fill |-> "red"]
Text2 == [xy |-> <<500, 500>>, text |-> "Wire Harness", fill |-> "black"]
Text3 == [xy |-> <<500, 600>>, text |-> "DELETE ME", fill |-> "red"]

WireRect == [box |-> <<200, 700, 800, 750>>, fill |-> "black"]
LeftRect == [box |-> <<150, 680, 250, 770>>, fill |-> "gray"]
RightRect == [box |-> <<750, 680, 850, 770>>, fill |-> "gray"]

\* ------------------------------------------------------- colours, raster
\* ImageColor name -> RGB triple, as the drawing library resolves them.
ColorOf(name) ==
    CASE name = "white" -> <<255, 255, 255>>
      [] name = "black" -> <<0, 0, 0>>
      [] name = "red"   -> <<255, 0, 0>>
      [] name = "gray"  -> <<128, 128, 128>>

\* The pixels of the canvas that the model observes.
Probes ==
    { <<10, 10>>,
      <<500, 400>>, <<540, 400>>, <<500, 406>>,
      <<500, 500>>, <<540, 500>>,
      <<500, 600>>, <<540, 600>>,
      <<500, 725>>, <<500, 699>>, <<500, 750>>,
      <<200, 725>>, <<800, 725>>,
      <<150, 680>>, <<850, 770>>, <<149, 725>>, <<851, 725>>,
      <<251, 725>>, <<225, 690>> }

\* The name img before line 5 has run (never read there).
NoImage == [w |-> 0, h |-> 0, px |-> [p \in Probes |-> <<0, 0, 0>>]]

\* Image.new('RGB', (w, h), color=c)
New_Black(w, h, c) ==
    [w |-> w, h |-> h, px |-> [p \in Probes |-> ColorOf("black")]]

New(w, h, c) ==
    [w |-> w, h |-> h, px |-> [p \in Probes |-> ColorOf(c)]]

\* draw.rectangle([x0, y0, x1, y1], fill=c): both corners are inclusive.
InBox(p, b) ==
    /\ b[1] <= p[1] /\ p[1] <= b[3]
    /\ b[2] <= p[2] /\ p[2] <= b[4]

Rectangle_Grow(im, r) ==
    [w |-> IF r.box[3] + 1 > 800 THEN r.box[3] + 200 ELSE im.w,
     h |-> im.h,
     px |-> [p \in Probes |->
               IF InBox(p, r.box) THEN ColorOf(r.fill) ELSE im.px[p]]]

Rectangle_Under(im, r) ==
    [im EXCEPT !.px = [p \in Probes |->
        IF InBox(p, r.box) /\ im.px[p] = ColorOf(Background)
        THEN ColorOf(r.fill) ELSE im.px[p]]]

Rectangle(im, r) ==
    [im EXCEPT !.px = [p \in Probes |->
        IF InBox(p, r.box) THEN ColorOf(r.fill) ELSE im.px[p]]]

\* draw.text(xy, text, fill=c, anchor='mm'): the rendered string is centred
\* on xy; its extent is Len(text) glyphs of the backend's metrics.  The ink
\* is abstracted to the whole text box.
InText(p, t, b) ==
    /\ 2 * (IF p[1] >= t.xy[1] THEN p[1] - t.xy[1] ELSE t.xy[1] - p[1])
          <= Len(t.text) * b.gw
    /\ 2 * (IF p[2] >= t.xy[2] THEN p[2] - t.xy[2] ELSE t.xy[2] - p[2])
          <= b.gh

Text(im, t, b) ==
    [im EXCEPT !.px = [p \in Probes |->
        IF InText(p, t, b) THEN ColorOf(t.fill) ELSE im.px[p]]]

\* img.save(path, 'JPEG', quality=q): the bytes written.
Encode(im, q) ==
    [format |-> "JPEG", quality |-> q, size |-> <<im.w, im.h>>, data |-> im.px]

\* ----------------------------------------------------------- environment
Backends == [gw : {6, MaxGlyphWidth}, gh : {11, MaxGlyphHeight}]

StaleContent == [format |-> "JPEG", quality |-> 0, size |-> <<1, 1>>,
                 data |-> [p \in Probes |-> <<0, 0, 0>>]]

NoContent == [format |-> "none", quality |-> 0, size |-> <<0, 0>>,
              data |-> [p \in Probes |-> <<0, 0, 0>>]]

\* File systems the script can start in: test-images/ absent, or present
\* (writable or not) with the output file absent or left by an earlier use.
InitFS ==
    { [dir |-> FALSE, dirWritable |-> FALSE, exists |-> FALSE,
       fileWritable |-> FALSE, content |-> NoContent] }
    \cup
    { [dir |-> TRUE, dirWritable |-> dw, exists |-> FALSE,
       fileWritable |-> FALSE, content |-> NoContent] : dw \in BOOLEAN }
    \cup
    { [dir |-> TRUE, dirWritable |-> dw, exists |-> TRUE,
       fileWritable |-> fw, content |-> StaleContent] :
         dw \in BOOLEAN, fw \in BOOLEAN }

\* open(path, "w+b") as done by img.save
CanOpen(f) ==
    /\ f.dir
    /\ IF f.exists THEN f.fileWritable ELSE f.dirWritable

OpenError(f) == IF f.dir THEN "PermissionError" ELSE "FileNotFoundError"

EndStates == {"done", "failed"}

NoPrev == [valid |-> FALSE, pc |-> "none", img |-> NoImage, fs |-> CHOOSE f \in InitFS : ~f.dir,
           fs0 |-> CHOOSE f \in InitFS : ~f.dir, stdout |-> <<>>, writes |-> <<>>,
           fontPath |-> "pending"]

\* ------------------------------------------------------------------ Init
Init ==
    /\ pc = "L5"
    /\ img = NoImage
    /\ draw = FALSE
    /\ font_large = "unset"
    /\ font_medium = "unset"
    /\ fs \in InitFS
    /\ fs0 = fs
    /\ stdout = <<>>
    /\ writes = <<>>
    /\ steps = <<>>
    /\ err = "none"
    /\ fontPath = "pending"
    /\ be \in Backends
    /\ run = 1
    /\ prev = NoPrev

\* --------------------------------------------------------------- actions
\* line 5: img = Image.new('RGB', (1000, 1000), color='white')
NewImage ==
    /\ pc = "L5"
    /\ img' = New(Width, Height, Background)
    /\ steps' = Append(steps, "canvas")
    /\ pc' = "L6"
    /\ UNCHANGED <<draw, font_large, font_medium, fs, fs0, stdout, writes,
                   err, fontPath, be, run, prev>>

\* line 6: draw = ImageDraw.Draw(img)
NewDraw ==
    /\ pc = "L6"
    /\ draw' = TRUE
    /\ pc' = "L11"
    /\ UNCHANGED <<img, font_large, font_medium, fs, fs0, stdout, writes,
                   steps, err, fontPath, be, run, prev>>

\* lines 9-15: font_large = ImageFont.load_default() inside try/except
LoadFontLarge_Raise ==
    /\ pc = "L11"
    /\ \E ok \in BOOLEAN :
         IF ok
         THEN /\ font_large' = "default"
              /\ pc' = "L12"
              /\ UNCHANGED <<font_medium, steps, fontPath, err>>
         ELSE /\ font_large' = "unset"
              /\ pc' = "failed"
              /\ err' = "OSError"
              /\ fontPath' = "fail_large"
              /\ UNCHANGED <<font_medium, steps>>
    /\ UNCHANGED <<img, draw, fs, fs0, stdout, writes, be, run, prev>>

LoadFontLarge ==
    /\ pc = "L11"
    /\ \E ok \in BOOLEAN :
         IF ok
         THEN /\ font_large' = "default"
              /\ pc' = "L12"
              /\ UNCHANGED <<font_medium, steps, fontPath>>
         ELSE /\ font_large' = "None"
              /\ font_medium' = "None"
              /\ fontPath' = "fail_large"
              /\ steps' = Append(steps, "font")
              /\ pc' = "L18"
    /\ UNCHANGED <<img, draw, fs, fs0, stdout, writes, err, be, run, prev>>

\* lines 9-15: font_medium = ImageFont.load_default() inside try/except
LoadFontMedium ==
    /\ pc = "L12"
    /\ \E ok \in BOOLEAN :
         IF ok
         THEN /\ font_medium' = "default"
              /\ fontPath' = "ok"
              /\ UNCHANGED font_large
         ELSE /\ font_large' = "None"
              /\ font_medium' = "None"
              /\ fontPath' = "fail_medium"
    /\ steps' = Append(steps, "font")
    /\ pc' = "L18"
    /\ UNCHANGED <<img, draw, fs, fs0, stdout, writes, err, be, run, prev>>

\* line 18: draw.text((500, 400), "TEST LISTING", fill='red', anchor='mm')
\* No font= argument is passed: font_large is not read.
DrawText1_FontGated ==
    /\ pc = "L18"
    /\ img' = IF font_large = "None" THEN img ELSE Text(img, Text1, be)
    /\ steps' = Append(steps, "text1")
    /\ pc' = "L19"
    /\ UNCHANGED <<draw, font_large, font_medium, fs, fs0, stdout, writes,
                   err, fontPath, be, run, prev>>

DrawText1 ==
    /\ pc = "L18"
    /\ img' = Text(img, Text1, be)
    /\ steps' = Append(steps, "text1")
    /\ pc' = "L19"
    /\ UNCHANGED <<draw, font_large, font_medium, fs, fs0, stdout, writes,
                   err, fontPath, be, run, prev>>

\* line 19: draw.text((500, 500), "Wire Harness", fill='black', anchor='mm')
DrawText2_Skipped ==
    /\ pc = "L19"
    /\ img' = Text(img, Text3, be)
    /\ steps' = Append(steps, "text3")
    /\ pc' = "L23"
    /\ UNCHANGED <<draw, font_large, font_medium, fs, fs0, stdout, writes,
                   err, fontPath, be, run, prev>>

DrawText2 ==
    /\ pc = "L19"
    /\ img' = Text(img, Text2, be)
    /\ steps' = Append(steps, "text2")
    /\ pc' = "L20"
    /\ UNCHANGED <<draw, font_large, font_medium, fs, fs0, stdout, writes,
                   err, fontPath, be, run, prev>>

\* line 20: draw.text((500, 600), "DELETE ME", fill='red', anchor='mm')
DrawText3 ==
    /\ pc = "L20"
    /\ img' = Text(img, Text3, be)
    /\ steps' = Append(steps, "text3")
    /\ pc' = "L23"
    /\ UNCHANGED <<draw, font_large, font_medium, fs, fs0, stdout, writes,
                   err, fontPath, be, run, prev>>

\* line 23: draw.rectangle([200, 700, 800, 750], fill='black')
DrawWire ==
    /\ pc = "L23"
    /\ img' = Rectangle(img, WireRect)
    /\ steps' = Append(steps, "wire")
    /\ pc' = "L24"
    /\ UNCHANGED <<draw, font_large, font_medium, fs, fs0, stdout, writes,
                   err, fontPath, be, run, prev>>

\* line 24: draw.rectangle([150, 680, 250, 770], fill='gray')
DrawLeft ==
    /\ pc = "L24"
    /\ img' = Rectangle(img, LeftRect)
    /\ steps' = Append(steps, "left")
    /\ pc' = "L25"
    /\ UNCHANGED <<draw, font_large, font_medium, fs, fs0, stdout, writes,
                   err, fontPath, be, run, prev>>

\* line 25: draw.rectangle([750, 680, 850, 770], fill='gray')
DrawRight ==
    /\ pc = "L25"
    /\ img' = Rectangle(img, RightRect)
    /\ steps' = Append(steps, "right")
    /\ pc' = "L28"
    /\ UNCHANGED <<draw, font_large, font_medium, fs, fs0, stdout, writes,
                   err, fontPath, be, run, prev>>

\* line 28: img.save('test-images/test-wire-harness.jpg', 'JPEG', quality=95)
\* The file is created or overwritten when it can be opened for writing;
\* otherwise the exception is not caught and the script ends.
Save_Swallow ==
    /\ pc = "L28"
    /\ IF CanOpen(fs)
       THEN /\ fs' = [fs EXCEPT !.exists = TRUE,
                                !.content = Encode(img, Quality),
                                !.fileWritable = TRUE]
            /\ writes' = Append(writes, OutPath)
            /\ steps' = Append(steps, "save")
            /\ pc' = "L29"
            /\ UNCHANGED err
       ELSE /\ err' = OpenError(fs)
            /\ pc' = "L29"
            /\ UNCHANGED <<fs, writes, steps>>
    /\ UNCHANGED <<img, draw, font_large, font_medium, fs0, stdout,
                   fontPath, be, run, prev>>

Save_Mkdir ==
    /\ pc = "L28"
    /\ LET g == IF fs.dir THEN fs
                ELSE [fs EXCEPT !.dir = TRUE, !.dirWritable = TRUE]
       IN  IF CanOpen(g)
           THEN /\ fs' = [g EXCEPT !.exists = TRUE,
                                   !.content = Encode(img, Quality),
                                   !.fileWritable = TRUE]
                /\ writes' = Append(writes, OutPath)
                /\ steps' = Append(steps, "save")
                /\ pc' = "L29"
                /\ UNCHANGED err
           ELSE /\ err' = OpenError(g)
                /\ pc' = "failed"
                /\ UNCHANGED <<fs, writes, steps>>
    /\ UNCHANGED <<img, draw, font_large, font_medium, fs0, stdout,
                   fontPath, be, run, prev>>

Save_Stamp ==
    /\ pc = "L28"
    /\ IF CanOpen(fs)
       THEN /\ fs' = [fs EXCEPT !.exists = TRUE,
                                !.content = Encode(img, Quality + run),
                                !.fileWritable = TRUE]
            /\ writes' = Append(writes, OutPath)
            /\ steps' = Append(steps, "save")
            /\ pc' = "L29"
            /\ UNCHANGED err
       ELSE /\ err' = OpenError(fs)
            /\ pc' = "failed"
            /\ UNCHANGED <<fs, writes, steps>>
    /\ UNCHANGED <<img, draw, font_large, font_medium, fs0, stdout,
                   fontPath, be, run, prev>>

Save ==
    /\ pc = "L28"
    /\ IF CanOpen(fs)
       THEN /\ fs' = [fs EXCEPT !.exists = TRUE,
                                !.content = Encode(img, Quality),
                                !.fileWritable = TRUE]
            /\ writes' = Append(writes, OutPath)
            /\ steps' = Append(steps, "save")
            /\ pc' = "L29"
            /\ UNCHANGED err
       ELSE /\ err' = OpenError(fs)
            /\ pc' = "failed"
            /\ UNCHANGED <<fs, writes, steps>>
    /\ UNCHANGED <<img, draw, font_large, font_medium, fs0, stdout,
                   fontPath, be, run, prev>>

\* line 29: print("Test image created: test-images/test-wire-harness.jpg")
PrintLine_Twice ==
    /\ pc = "L29"
    /\ stdout' = stdout \o <<ConfirmLine, ConfirmLine>>
    /\ steps' = Append(steps, "print")
    /\ pc' = "done"
    /\ UNCHANGED <<img, draw, font_large, font_medium, fs, fs0, writes,
                   err, fontPath, be, run, prev>>

PrintLine ==
    /\ pc = "L29"
    /\ stdout' = Append(stdout, ConfirmLine)
    /\ steps' = Append(steps, "print")
    /\ pc' = "done"
    /\ UNCHANGED <<img, draw, font_large, font_medium, fs, fs0, writes,
                   err, fontPath, be, run, prev>>

\* What a finished run leaves behind for comparison with the next one.
Outcome ==
    [valid |-> TRUE, pc |-> pc, img |-> img, fs |-> fs, fs0 |-> fs0,
     stdout |-> stdout, writes |-> writes, fontPath |-> fontPath]

\* A new process starts from line 5 with fresh names and a fresh stdout.
StartRun(f) ==
    /\ pc \in EndStates
    /\ run < MaxRuns
    /\ prev' = Outcome
    /\ run' = run + 1
    /\ pc' = "L5"
    /\ img' = NoImage
    /\ draw' = FALSE
    /\ font_large' = "unset"
    /\ font_medium' = "unset"
    /\ stdout' = <<>>
    /\ writes' = <<>>
    /\ steps' = <<>>
    /\ err' = "none"
    /\ fontPath' = "pending"
    /\ fs' = f
    /\ fs0' = f
    /\ UNCHANGED be

\* The script is run again in the directory the previous run left.
Rerun == StartRun(fs)

\* The script is run again in a copy of the directory the previous run
\* started in.
RerunFresh == StartRun(fs0)

Step ==
    \/ NewImage
    \/ NewDraw
    \/ LoadFontLarge
    \/ LoadFontMedium
    \/ DrawText1
    \/ DrawText2
    \/ DrawText3
    \/ DrawWire
    \/ DrawLeft
    \/ DrawRight
    \/ Save
    \/ PrintLine

Next ==
    \/ Step
    \/ Rerun
    \/ RerunFresh

Spec == Init /\ [][Next]_vars

\* The interpreter executes the next statement as long as there is one.
FairSpec == Spec /\ WF_vars(Step)

\* ------------------------------------------------------------ properties
\* The fixed order of the script's steps.
Order == <<"canvas", "font", "text1", "text2", "text3", "wire", "left",
           "right", "save", "print">>

IsPrefix(s, t) == Len(s) <= Len(t) /\ \A i \in 1..Len(s) : s[i] = t[i]

Done(s) == {s[i] : i \in 1..Len(s)}

\* The canvas is complete: all six draws have run.
Drawn == pc \in {"L28", "L29", "done", "failed"}

\* C1: in the success end state exactly one file has been written, at
\* test-images/test-wire-harness.jpg, and stdout is exactly the one
\* confirmation line; at no point of a run is there any other file write
\* or any other output line.
C1_OneFileOneLine ==
    /\ IsPrefix(writes, <<OutPath>>)
    /\ IsPrefix(stdout, <<ConfirmLine>>)
    /\ pc = "done" =>
         /\ writes = <<OutPath>>
         /\ stdout = <<ConfirmLine>>
         /\ fs.exists

C1_Witness == pc = "done" /\ writes = <<OutPath>> /\ Len(stdout) = 1

\* C2: when the output file cannot be opened at the save step, the run
\* goes to the failed state without printing; nothing of the run follows a
\* failure; the confirmation line is printed only after a successful save.
C2_SaveFailureIsHard ==
    /\ [][(pc = "L28" /\ ~CanOpen(fs)) =>
            (pc' = "failed" /\ stdout' = <<>> /\ fs' = fs)]_vars
    /\ [][pc = "failed" => run' = run + 1]_vars
    /\ [](stdout # <<>> => ("save" \in Done(steps) /\ err = "none"))
    /\ [](err # "none" => (pc = "failed" /\ stdout = <<>>))

C2_Witness ==
    pc = "failed" /\ err = "PermissionError" /\ "right" \in Done(steps)

\* C3: a raising load_default() never ends the run: both font names become
\* None, the next statement is line 18, the steps still run in the fixed
\* order, and the only way such a run fails is the save step on a file
\* that cannot be opened.
C3_FontFailureSwallowed ==
    /\ [][(pc = "L11" \/ pc = "L12") => (pc' = "L12" \/ pc' = "L18")]_vars
    /\ [](fontPath \in {"fail_large", "fail_medium"} =>
            /\ font_large = "None"
            /\ font_medium = "None"
            /\ IsPrefix(steps, Order)
            /\ pc = "failed" => (~CanOpen(fs) /\ "right" \in Done(steps))
            /\ pc = "done" => steps = Order)

C3_Witness ==
    fontPath = "fail_large" /\ pc = "done" /\ steps = Order

\* C4: in the canvas that is encoded, the centres of the left and right
\* connector rectangles, (200,725) and (800,725), are gray although both
\* lie inside the black wire rectangle.
C4_ConnectorCentresGray ==
    /\ InBox(<<200, 725>>, WireRect.box)
    /\ InBox(<<800, 725>>, WireRect.box)
    /\ Drawn =>
         /\ img.px[<<200, 725>>] = <<128, 128, 128>>
         /\ img.px[<<800, 725>>] = <<128, 128, 128>>
    /\ "save" \in Done(steps) =>
         /\ fs.content.data[<<200, 725>>] = <<128, 128, 128>>
         /\ fs.content.data[<<800, 725>>] = <<128, 128, 128>>

C4_Witness ==
    pc = "L29" /\ fs.content.data[<<200, 725>>] = <<128, 128, 128>>

\* C5: in the canvas that is encoded, the centre of the wire rectangle,
\* (500,725), is black and the pixel (10,10), outside every drawn shape,
\* is white.
C5_WireBlackBackgroundWhite ==
    /\ Drawn =>
         /\ img.px[<<500, 725>>] = <<0, 0, 0>>
         /\ img.px[<<10, 10>>] = <<255, 255, 255>>
    /\ "save" \in Done(steps) =>
         /\ fs.content.data[<<500, 725>>] = <<0, 0, 0>>
         /\ fs.content.data[<<10, 10>>] = <<255, 255, 255>>

C5_Witness ==
    /\ pc = "L29"
    /\ fs.content.data[<<500, 725>>] = <<0, 0, 0>>
    /\ fs.content.data[<<10, 10>>] = <<255, 255, 255>>

\* C6: from its creation on the canvas is 1000 wide and 1000 high, and so
\* is the image that is written.
C6_FixedDimensions ==
    /\ pc # "L5" => (img.w = 1000 /\ img.h = 1000)
    /\ "save" \in Done(steps) => fs.content.size = <<1000, 1000>>

C6_Witness ==
    pc = "done" /\ img.w = 1000 /\ fs.content.size = <<1000, 1000>>

\* C7: two runs with the same font path and the same initial file system
\* end the same way, with the same canvas, the same file and the same
\* stdout; a run that follows a successful run in the same directory
\* overwrites the file with identical content, in one write.
C7_Deterministic ==
    /\ (prev.valid /\ pc \in EndStates /\ prev.fontPath = fontPath
          /\ prev.fs0 = fs0) =>
         /\ pc = prev.pc
         /\ img = prev.img
         /\ stdout = prev.stdout
         /\ fs = prev.fs
    /\ (prev.valid /\ pc \in EndStates /\ prev.fontPath = fontPath
          /\ prev.pc = "done" /\ fs0 = prev.fs) =>
         /\ pc = "done"
         /\ fs.exists
         /\ fs.content = prev.fs.content
         /\ writes = <<OutPath>>
         /\ stdout = prev.stdout
         /\ img = prev.img

C7_Witness ==
    /\ prev.valid /\ prev.pc = "done" /\ pc = "done"
    /\ prev.fontPath = fontPath
    /\ fs0 = prev.fs /\ fs0 # prev.fs0
    /\ fs.content = prev.fs.content

\* C8: a run that starts without the test-images/ directory never has the
\* directory or the output file, never prints, and ends in failure.
C8_DirectoryNeverCreated ==
    /\ [](~fs0.dir =>
            /\ ~fs.dir
            /\ ~fs.exists
            /\ writes = <<>>
            /\ pc \notin {"L29", "done"})
    /\ \A r \in 1..MaxRuns :
         (run = r /\ ~fs0.dir) ~> (run = r /\ pc = "failed")

C8_Witness ==
    ~fs0.dir /\ pc = "failed" /\ err = "FileNotFoundError" /\ ~fs.dir

\* C9: every run terminates in "done" (file written, line printed) or in
\* "failed"; the steps occur in the fixed order and the canvas is not
\* drawn on after the save.
C9_TerminatesInOrder ==
    /\ [](IsPrefix(steps, Order))
    /\ [](pc = "done" =>
            (steps = Order /\ fs.exists /\ stdout = <<ConfirmLine>>))
    /\ [](pc = "failed" => (err # "none" /\ stdout = <<>>))
    /\ []((~ENABLED Step) => pc \in EndStates)
    /\ [][("save" \in Done(steps) /\ run' = run) => img' = img]_vars
    /\ \A r \in 1..MaxRuns : (run = r) ~> (run = r /\ pc \in EndStates)

C9_Witness ==
    pc = "done" /\ steps = Order /\ run = 1

\* C10: the canvas at the save step, and the file written from it, are the
\* same whether the font load succeeded or failed.
C10_FontIndependent ==
    /\ (prev.valid /\ Drawn) => img = prev.img
    /\ (prev.valid /\ "save" \in Done(steps) /\ prev.pc = "done") =>
         fs.content = prev.fs.content

C10_Witness ==
    /\ prev.valid /\ prev.fontPath = "ok" /\ prev.pc = "done"
    /\ fontPath = "fail_large" /\ pc = "L29"
    /\ fs.content = prev.fs.content
====
